---- MODULE Spec2Model ----
(***************************************************************************)
(* Model of reruno/linkedin-parser: the SeleniumManager session            *)
(* (src/selenium_manager.py), the standalone follower scraper              *)
(* (src/test_selenium.py) and the follower-text parser.                    *)
(*                                                                         *)
(* Text is a sequence of one-character strings.  A Python float is an IEEE *)
(* 754 binary64 value, kept as a 53-bit significand (a sequence of bits,   *)
(* most significant first) and the binary weight of its last bit.          *)
(***************************************************************************)
EXTENDS Integers, Sequences, FiniteSets, TLC

\* ------------------------------------------------------------------------
\* Python str operations used by the source
\* ------------------------------------------------------------------------

\* str.lower() on the letters that occur in the modelled texts
LowerChar(c) ==
  CASE c = "K" -> "k"
    [] c = "M" -> "m"
    [] c = "F" -> "f"
    [] c = "I" -> "i"
    [] c = "N" -> "n"
    [] OTHER -> c

Lower(s) == [i \in 1..Len(s) |-> LowerChar(s[i])]

\* whether pat occurs in s at position i
MatchAt(s, pat, i) ==
  /\ i + Len(pat) - 1 <= Len(s)
  /\ \A j \in 1..Len(pat) : s[i + j - 1] = pat[j]

\* str.replace(pat, ""): the occurrences of pat, left to right and not
\* overlapping, are removed
RECURSIVE RemoveFrom(_, _, _)
RemoveFrom(s, pat, i) ==
  IF i > Len(s) THEN <<>>
  ELSE IF MatchAt(s, pat, i) THEN RemoveFrom(s, pat, i + Len(pat))
  ELSE <<s[i]>> \o RemoveFrom(s, pat, i + 1)

Remove(s, pat) == RemoveFrom(s, pat, 1)

\* the `in` operator for a single character
Contains(s, c) == \E i \in 1..Len(s) : s[i] = c

IsSpace(c) == c = " "

\* str.strip()
RECURSIVE LStrip(_)
LStrip(s) == IF s # <<>> /\ IsSpace(s[1]) THEN LStrip(Tail(s)) ELSE s

RECURSIVE RStrip(_)
RStrip(s) ==
  IF s # <<>> /\ IsSpace(s[Len(s)]) THEN RStrip(SubSeq(s, 1, Len(s) - 1)) ELSE s

Strip(s) == RStrip(LStrip(s))

\* ------------------------------------------------------------------------
\* Natural numbers as bit sequences (most significant bit first)
\* ------------------------------------------------------------------------

\* the w low bits of n
BitsOfWidth(n, w) == [j \in 1..w |-> (n \div 2^(w - j)) % 2]

\* b without its leading zeros
StripZeros(b) ==
  IF \A i \in 1..Len(b) : b[i] = 0 THEN <<>>
  ELSE SubSeq(b, CHOOSE i \in 1..Len(b) : b[i] = 1 /\ \A j \in 1..(i - 1) : b[j] = 0,
              Len(b))

\* the bits of n < 2^31
BitsOfNat(n) == StripZeros(BitsOfWidth(n, 31))

\* the number b stands for (below 2^31)
RECURSIVE NatOfBits(_)
NatOfBits(b) ==
  IF b = <<>> THEN 0
  ELSE IF Len(b) = 1 THEN b[1]
  ELSE LET h == Len(b) \div 2
       IN  NatOfBits(SubSeq(b, 1, h)) * 2^(Len(b) - h) + NatOfBits(SubSeq(b, h + 1, Len(b)))

\* b + 1
IncBits(b) ==
  IF \A i \in 1..Len(b) : b[i] = 1 THEN <<1>> \o [i \in 1..Len(b) |-> 0]
  ELSE LET z == CHOOSE i \in 1..Len(b) : b[i] = 0 /\ \A j \in (i + 1)..Len(b) : b[j] = 1
       IN  [i \in 1..Len(b) |-> IF i < z THEN b[i] ELSE IF i = z THEN 1 ELSE 0]

\* bits handled in one step of a multiplication or a division
ChunkBits == 10

\* b * k + carry for a multiplier k <= 10^6, ChunkBits bits at a time from
\* the low end
RECURSIVE MulBitsFrom(_, _, _)
MulBitsFrom(b, k, carry) ==
  IF b = <<>> THEN BitsOfNat(carry)
  ELSE LET w  == IF Len(b) < ChunkBits THEN Len(b) ELSE ChunkBits
           lo == NatOfBits(SubSeq(b, Len(b) - w + 1, Len(b)))
           t  == lo * k + carry
       IN  MulBitsFrom(SubSeq(b, 1, Len(b) - w), k, t \div 2^w)
             \o BitsOfWidth(t % 2^w, w)

\* b * k
MulBits(b, k) == StripZeros(MulBitsFrom(b, k, 0))

\* the first n * ChunkBits binary digits of the fraction r / d (r < d < 2^20),
\* and what is left
RECURSIVE FracBits(_, _, _)
FracBits(r, d, n) ==
  IF n = 0 THEN [bits |-> <<>>, rem |-> r]
  ELSE LET t    == r * 2^ChunkBits
           rest == FracBits(t % d, d, n - 1)
       IN  [bits |-> BitsOfWidth(t \div d, ChunkBits) \o rest.bits, rem |-> rest.rem]

RECURSIVE Pow(_, _)
Pow(b, n) == IF n = 0 THEN 1 ELSE b * Pow(b, n - 1)

\* ------------------------------------------------------------------------
\* IEEE 754 binary64, as Python's float
\* ------------------------------------------------------------------------

\* significand width of a binary64
MantBits == 53

\* chunks of fraction digits taken before rounding: enough for MantBits + 1
\* significant digits of any n / d >= 10^-6
FracChunks == 8

\* bits * 2^e (bits without leading zeros), rounded to nearest, ties to even;
\* sticky says that the exact value has further nonzero digits below bits
RoundNearestEven(bits, sticky, e) ==
  IF Len(bits) <= MantBits THEN [m |-> bits, e |-> e]
  ELSE LET m    == SubSeq(bits, 1, MantBits)
           g    == bits[MantBits + 1]
           st   == sticky \/ \E i \in (MantBits + 2)..Len(bits) : bits[i] = 1
           up   == g = 1 /\ (st \/ m[MantBits] = 1)
           m2   == IF up THEN IncBits(m) ELSE m
           drop == Len(bits) - MantBits
       IN  IF Len(m2) > MantBits
           THEN [m |-> SubSeq(m2, 1, MantBits), e |-> e + drop + 1]
           ELSE [m |-> m2, e |-> e + drop]

\* the binary64 nearest to n / d (0 < n < 2^31, d a power of ten)
FloatOfRatio(n, d) ==
  LET fb == FracBits(n % d, d, FracChunks)
  IN  RoundNearestEven(StripZeros(BitsOfNat(n \div d) \o fb.bits), fb.rem # 0,
                       0 - FracChunks * ChunkBits)

\* float * int for a finite positive float and a positive int k <= 10^6
FloatMul(f, k) == RoundNearestEven(MulBits(f.m, k), FALSE, f.e)

\* int(float) of a finite non-negative float: truncation
FloatTrunc(f) ==
  IF f.e >= 0 THEN NatOfBits(f.m \o [i \in 1..f.e |-> 0])
  ELSE IF 0 - f.e >= Len(f.m) THEN 0
  ELSE NatOfBits(SubSeq(f.m, 1, Len(f.m) + f.e))

\* ------------------------------------------------------------------------
\* float(str) and int(float)
\* ------------------------------------------------------------------------

Digits == <<"0", "1", "2", "3", "4", "5", "6", "7", "8", "9">>

IsDigit(c) == \E i \in 1..10 : Digits[i] = c

DigitVal(c) == (CHOOSE i \in 1..10 : Digits[i] = c) - 1

\* the decimal digits of s, read as one natural number
RECURSIVE DigitsValue(_)
DigitsValue(s) ==
  IF s = <<>> THEN 0
  ELSE IF IsDigit(s[Len(s)])
       THEN 10 * DigitsValue(SubSeq(s, 1, Len(s) - 1)) + DigitVal(s[Len(s)])
       ELSE DigitsValue(SubSeq(s, 1, Len(s) - 1))

\* digits with at most one point and at least one digit: "12", "1.5", "1.", ".5"
IsDecimal(s) ==
  /\ \A i \in 1..Len(s) : IsDigit(s[i]) \/ s[i] = "."
  /\ \E i \in 1..Len(s) : IsDigit(s[i])
  /\ Cardinality({i \in 1..Len(s) : s[i] = "."}) <= 1

\* the number of digits after the point
FracDigits(s) ==
  IF Contains(s, ".")
  THEN Len(s) - (CHOOSE i \in 1..Len(s) : s[i] = ".")
  ELSE 0

INF == <<"i", "n", "f">>
INFINITY == <<"i", "n", "f", "i", "n", "i", "t", "y">>
NAN == <<"n", "a", "n">>

\* float(s): surrounding whitespace is ignored, then an optional sign and
\* either a decimal literal or one of inf, infinity, nan.  (Exponents and
\* digit-group underscores, which float also accepts, need the characters
\* e and _ inside a literal; no modelled text has them there.)
PyFloat(s) ==
  LET t    == Strip(s)
      sgn  == t # <<>> /\ t[1] \in {"-", "+"}
      neg  == t # <<>> /\ t[1] = "-"
      body == IF sgn THEN Tail(t) ELSE t
  IN  IF body \in {INF, INFINITY} THEN [kind |-> "inf", neg |-> neg, n |-> 0, d |-> 1]
      ELSE IF body = NAN THEN [kind |-> "nan", neg |-> neg, n |-> 0, d |-> 1]
      ELSE IF IsDecimal(body)
      THEN [kind |-> "finite", neg |-> neg,
            n |-> DigitsValue(body), d |-> Pow(10, FracDigits(body))]
      ELSE [kind |-> "ValueError", neg |-> FALSE, n |-> 0, d |-> 1]

\* int(number * multiplier) for the finite float nearest to n / d
IntOfProduct(n, d, multiplier) ==
  IF n = 0 THEN 0
  ELSE FloatTrunc(FloatMul(FloatOfRatio(n, d), multiplier))

\* ------------------------------------------------------------------------
\* SeleniumManager._parse_follower_text
\* ------------------------------------------------------------------------

FOLLOWERS == <<"f", "o", "l", "l", "o", "w", "e", "r", "s">>

None == [tag |-> "None", val |-> 0]
Int32(v) == [tag |-> "int", val |-> v]
Raised(exc) == [tag |-> exc, val |-> 0]

\* the try block: float(text) then int(number * multiplier).  A ValueError
\* (from float, or from int of a NaN) is caught and gives None; int of an
\* infinity raises OverflowError, which the except clause does not name.
IntOfFloatText(t, multiplier) ==
  LET f == PyFloat(t)
  IN  CASE f.kind = "ValueError" -> None
        [] f.kind = "nan" -> None
        [] f.kind = "inf" -> Raised("OverflowError")
        [] OTHER ->
             LET v == IntOfProduct(f.n, f.d, multiplier)
             IN  Int32(IF f.neg THEN 0 - v ELSE v)

_parse_follower_text(s) ==
  LET t1 == Strip(Remove(Lower(s), FOLLOWERS))
      t2 == Remove(t1, <<",">>)
  IN  IF Contains(t2, "k") THEN IntOfFloatText(Remove(t2, <<"k">>), 1000)
      ELSE IF Contains(t2, "m") THEN IntOfFloatText(Remove(t2, <<"m">>), 1000000)
      ELSE IntOfFloatText(t2, 1)

\* ------------------------------------------------------------------------
\* Inputs of the parser
\* ------------------------------------------------------------------------

\* longest free-form text in front of the word "followers"
MaxTextLen == 3

Alphabet == {"1", "4", ".", ",", "k", "M", " ", "x", "-"}

RECURSIVE TextsOfLen(_)
TextsOfLen(n) ==
  IF n = 0 THEN {<<>>}
  ELSE {Append(t, c) : t \in TextsOfLen(n - 1), c \in Alphabet}

FreeTexts == UNION {TextsOfLen(n) : n \in 0..MaxTextLen}

Tails == {<<>>, <<" ">> \o FOLLOWERS, <<" ", "F">> \o Tail(FOLLOWERS)}

\* the texts of the docstring and of the documented examples
Text_1_2K == <<"1", ".", "2", "K", " ">> \o FOLLOWERS
Text_3M == <<"3", "M", " ">> \o FOLLOWERS
Text_100M == <<"1", "0", "0", "M", " ">> \o FOLLOWERS
Text_12_345 == <<"1", "2", ",", "3", "4", "5", " ">> \o FOLLOWERS
Text_abc == <<"a", "b", "c", " ">> \o FOLLOWERS
Text_4_1M == <<"4", ".", "1", "M", " ">> \o FOLLOWERS
Text_inf == INF \o <<" ">> \o FOLLOWERS
Text_nan == NAN \o <<" ">> \o FOLLOWERS

NamedTexts ==
  {Text_1_2K, Text_3M, Text_100M, Text_12_345, Text_4_1M, Text_abc, Text_inf, Text_nan}

ParserInputs == {t \o tail : t \in FreeTexts, tail \in Tails} \cup NamedTexts

\* ------------------------------------------------------------------------
\* State
\* ------------------------------------------------------------------------

VARIABLES
  text,       \* the argument of _parse_follower_text
  parsed,     \* what the call gave: Unset before it
  username,   \* os.getenv("LINKEDIN_USER")
  password,   \* os.getenv("LINKEDIN_PASS")
  pc,         \* where the thread of control is
  driver,     \* self.driver: "none" before webdriver.Chrome, "open", "quit"
  quits,      \* calls of driver.quit()
  attempt,    \* the loop variable of the running retry loop
  loggedIn,   \* login() returned normally
  held,       \* the caller holds the SeleniumManager object
  raised,     \* the exception that reached the caller, "none" without one
  raisedIn,   \* the method it came out of
  ret,        \* what the last get_followers call returned
  page,       \* driver.page_source as the last attempt saw it
  yields,     \* what each attempt of the running or last get_followers call gave
  log,        \* browser operations, delays, returns and raises, in order
  calls,      \* get_followers calls made
  closes,     \* close() calls made by the caller
  todo,       \* the run: company URLs still to look up
  aborted,    \* the run: an exception ended the enrichment early
  enrich_pc,  \* enrich: where control is
  listings,   \* enrich: its argument
  pending,    \* the distinct company URLs not yet looked up
  current,    \* the company URL of the running lookup
  cache,      \* the follower lookup results, keyed by company URL
  scrapes,    \* the company URLs the scraper was invoked for, in order
  enriched,   \* what enrich returned
  sa_url,     \* get_linkedin_followers: its argument
  sa_pc,      \* get_linkedin_followers: where control is
  sa_driver,  \* its local driver: "none" (None) or "open" (a WebDriver object)
  sa_quits,   \* calls of driver.quit() it made
  sa_h3,      \* the text of the h3 element of the page, NoElement without one
  sa_count,   \* its local followers_count
  sa_exc,     \* the exception its except clause caught, "none" without one
  sa_ret,     \* what it returned
  html_content,   \* parse_linkedin_jobs: its argument, the document
  jobs_pc,        \* parse_linkedin_jobs: where control is
  job_cards,      \* its local job_cards
  card_index,     \* the position of the for loop in job_cards
  extracted_jobs, \* its local extracted_jobs
  jobs_exc,       \* the exception that left it, "none" without one
  limit,          \* fetchListings: the result limit of the query
  totalAvailable, \* listings the upstream endpoint has for the query
  transport,      \* the page requests that fail at the transport level
  fetch_pc,       \* fetchListings: where control is
  offset,         \* the offset of the next request
  requests,       \* the offsets requested so far, in order
  accumulated,    \* the listings accumulated so far
  sawEmpty,       \* a successful response parsed to zero listings
  fetched         \* what fetchListings returned

parserVars == <<text, parsed>>

sessionVars ==
  <<username, password, pc, driver, quits, attempt, loggedIn, held, raised,
    raisedIn, ret, page, yields, log, calls, closes>>

enrichVars ==
  <<enrich_pc, listings, pending, current, cache, scrapes, enriched>>

runVars == <<todo, aborted, enrichVars>>

saVars == <<sa_url, sa_pc, sa_driver, sa_quits, sa_h3, sa_count, sa_exc, sa_ret>>

jobsVars ==
  <<html_content, jobs_pc, job_cards, card_index, extracted_jobs, jobs_exc>>

fetchVars ==
  <<limit, totalAvailable, transport, fetch_pc, offset, requests, accumulated,
    sawEmpty, fetched>>

\* the state of the listing side: parse_linkedin_jobs and fetchListings
listingVars == <<jobsVars, fetchVars>>

vars == <<parserVars, sessionVars, runVars, saVars, listingVars>>

Unset == [tag |-> "unset", val |-> 0]

\* soup.find(...) found nothing (no element has an empty label or text)
NoElement == <<>>

NoPage == [link |-> NoElement, div |-> NoElement]

ParserIdle == text = <<>> /\ parsed = Unset

SessionIdle ==
  /\ username = "none" /\ password = "none"
  /\ pc = "off" /\ driver = "none" /\ quits = 0 /\ attempt = 0
  /\ loggedIn = FALSE /\ held = FALSE /\ raised = "none" /\ raisedIn = "none"
  /\ ret = Unset /\ page = NoPage /\ yields = <<>> /\ log = <<>>
  /\ calls = 0 /\ closes = 0

\* no lookup result is cached for any URL
NoCache == [u \in {} |-> None]

EnrichIdle ==
  /\ enrich_pc = "off" /\ listings = <<>> /\ pending = {} /\ current = ""
  /\ cache = NoCache /\ scrapes = <<>> /\ enriched = <<>>

RunIdle == todo = {} /\ aborted = FALSE /\ EnrichIdle

StandaloneIdle ==
  /\ sa_url = "" /\ sa_pc = "off" /\ sa_driver = "none" /\ sa_quits = 0
  /\ sa_h3 = NoElement /\ sa_count = None /\ sa_exc = "none" /\ sa_ret = Unset

JobsIdle ==
  /\ html_content = <<>> /\ jobs_pc = "off" /\ job_cards = <<>>
  /\ card_index = 0 /\ extracted_jobs = <<>> /\ jobs_exc = "none"

FetchIdle ==
  /\ limit = 0 /\ totalAvailable = 0 /\ transport = {} /\ fetch_pc = "off"
  /\ offset = 0 /\ requests = <<>> /\ accumulated = <<>>
  /\ sawEmpty = FALSE /\ fetched = <<>>

\* ------------------------------------------------------------------------
\* The parser applied to one text
\* ------------------------------------------------------------------------

ParseInit ==
  /\ text \in ParserInputs
  /\ parsed = Unset
  /\ SessionIdle /\ RunIdle /\ StandaloneIdle /\ JobsIdle /\ FetchIdle

ParseText ==
  /\ parsed = Unset
  /\ parsed' = _parse_follower_text(text)
  /\ UNCHANGED <<text, sessionVars, runVars, saVars, listingVars>>

ParseNext == ParseText

SpecParse == ParseInit /\ [][ParseNext]_vars

\* ------------------------------------------------------------------------
\* SeleniumManager
\* ------------------------------------------------------------------------

\* os.getenv gives None ("none") or a string, here empty or not
EnvValues == {"none", "", "set"}

\* Mutant of Falsy: `value is None`, which takes the empty string as set
Falsy_none_only(v) == v = "none"

\* `not value` for None and for the empty string
Falsy(v) == v \in {"none", ""}

\* Mutant of get_max_retries: one pass too many
get_max_retries_plus_one == 3 + 1

\* max_retries of login and of get_followers
login_max_retries == 3
get_max_retries == 3

\* the company URLs of the modelled listings
Urls == {"company/a", "company/b"}

\* what a page shows: the aria-label of the first <a> whose aria-label
\* contains "followers", and the text of the first summary-info <div> whose
\* string contains "followers"
Pages ==
  {[link |-> l, div |-> d] :
     l \in {NoElement, Text_1_2K, Text_abc, Text_inf},
     d \in {NoElement, Text_3M, Text_abc}}

\* what the browser does on one attempt of get_followers: driver.get or
\* wait.until raises, or the landmark shows and page_source is one of Pages
BrowserErrors == {"TimeoutException", "WebDriverException"}

Raises(exc) == [exc |-> exc, page |-> [link |-> NoElement, div |-> NoElement]]

Shows(p) == [exc |-> "none", page |-> p]

Outcomes == {Raises(exc) : exc \in BrowserErrors} \cup {Shows(p) : p \in Pages}

\* every class the browser or the parser raises derives from Exception
IsException(exc) == exc \in BrowserErrors \cup {"OverflowError", "ValueError"}

\* Mutant of get_followers_catches: only the TimeoutException clause
get_followers_catches_timeout_only(exc) == exc = "TimeoutException"

\* the except clauses of get_followers: TimeoutException, then Exception
get_followers_catches(exc) == exc = "TimeoutException" \/ IsException(exc)

\* the except clause of login: Exception
login_catches(exc) == IsException(exc)

Failed(exc) == [tag |-> exc, val |-> 0]

\* lines 114-139: the text chosen from page_source, parsed; NotFound when no
\* text was found or it did not parse
NotFound == [tag |-> "NotFound", val |-> 0]

\* Mutant of text_to_parse: the fallback element is looked for first
text_to_parse_fallback_first(p) ==
  IF p.div # NoElement THEN p.div
  ELSE IF p.link # NoElement THEN p.link
  ELSE NoElement

text_to_parse(p) ==
  IF p.link # NoElement THEN p.link
  ELSE IF p.div # NoElement THEN p.div
  ELSE NoElement

\* _parse_follower_text on the texts the pages show, computed once
PageTexts == {p.link : p \in Pages} \cup {p.div : p \in Pages}

ParsedPageText == [t \in PageTexts |-> _parse_follower_text(t)]

ScrapePage(p) ==
  LET t == text_to_parse(p)
  IN  IF t = NoElement THEN NotFound
      ELSE LET followers == ParsedPageText[t]
           IN  IF followers.tag = "int" THEN followers
               ELSE IF followers = None THEN NotFound
               ELSE followers

\* Mutant of close_quits: the test inverted, so close() never quits
close_quits_inverted == driver = "none"

\* close(): quits the driver when self.driver is set
close_quits == driver # "none"

close_effect ==
  /\ quits' = IF close_quits THEN quits + 1 ELSE quits
  /\ driver' = IF close_quits THEN "quit" ELSE driver

\* SeleniumManager(): lines 23-35, up to the call of login
__init__ ==
  /\ pc = "start"
  /\ IF Falsy(username) \/ Falsy(password)
     THEN /\ raised' = "ValueError" /\ raisedIn' = "__init__"
          /\ pc' = "failed"
          /\ log' = Append(log, "raise")
          /\ UNCHANGED driver
     ELSE \E launched \in BOOLEAN :
            IF launched
            THEN /\ driver' = "open"
                 /\ pc' = "login"
                 /\ log' = Append(log, "launch")
                 /\ UNCHANGED <<raised, raisedIn>>
            ELSE /\ raised' = "WebDriverException" /\ raisedIn' = "__init__"
                 /\ pc' = "failed"
                 /\ log' = Append(log, "raise")
                 /\ UNCHANGED driver
  /\ attempt' = 0
  /\ UNCHANGED <<username, password, quits, loggedIn, held, ret, page, yields,
                 calls, closes, parserVars, listingVars, runVars, saVars>>

\* Mutant of login_sleeps: no delay after a failed attempt
login_sleeps_never == FALSE

\* line 67: `if attempt < max_retries - 1` before time.sleep(3)
login_sleeps == attempt < login_max_retries - 1

\* Mutant of login_attempt: no return after a successful login, so the loop
\* goes on
login_attempt_no_return ==
  /\ pc = "login"
  /\ attempt < login_max_retries
  /\ \E exc \in BrowserErrors \cup {"none"} :
       IF exc = "none"
       THEN /\ log' = log \o <<"login_get", "login_ok">>
            /\ loggedIn' = TRUE
            /\ attempt' = attempt + 1
            /\ UNCHANGED <<held, pc, raised, raisedIn>>
       ELSE /\ log' = log \o <<"login_get", "login_fail">>
                        \o (IF login_sleeps THEN <<"sleep(3)">> ELSE <<>>)
            /\ attempt' = attempt + 1
            /\ UNCHANGED <<loggedIn, held, pc, raised, raisedIn>>
  /\ UNCHANGED <<username, password, driver, quits, ret, page, yields, calls,
                 closes, parserVars, listingVars, runVars, saVars>>

\* one pass of the loop of login: the try block succeeds, or raises
login_attempt ==
  /\ pc = "login"
  /\ attempt < login_max_retries
  /\ \E exc \in BrowserErrors \cup {"none"} :
       IF exc = "none"
       THEN /\ log' = log \o <<"login_get", "login_ok">>
            /\ loggedIn' = TRUE
            /\ held' = TRUE
            /\ pc' = "idle"
            /\ UNCHANGED <<attempt, raised, raisedIn>>
       ELSE IF login_catches(exc)
       THEN /\ log' = log \o <<"login_get", "login_fail">>
                        \o (IF login_sleeps THEN <<"sleep(3)">> ELSE <<>>)
            /\ attempt' = attempt + 1
            /\ UNCHANGED <<loggedIn, held, pc, raised, raisedIn>>
       ELSE /\ log' = log \o <<"login_get", "raise">>
            /\ raised' = exc /\ raisedIn' = "login"
            /\ pc' = "failed"
            /\ UNCHANGED <<loggedIn, held, attempt>>
  /\ UNCHANGED <<username, password, driver, quits, ret, page, yields, calls,
                 closes, parserVars, listingVars, runVars, saVars>>

\* Mutant of login_exhausted: the error is raised without close()
login_exhausted_no_close ==
  /\ pc = "login"
  /\ attempt = login_max_retries
  /\ log' = Append(log, "raise")
  /\ raised' = "Exception" /\ raisedIn' = "login"
  /\ pc' = "failed"
  /\ UNCHANGED <<username, password, driver, quits, attempt, loggedIn, held, ret,
                 page, yields, calls, closes, parserVars, listingVars, runVars, saVars>>

\* Mutant of login_exhausted: close() but no raise, so login and the
\* constructor return
login_exhausted_no_raise ==
  /\ pc = "login"
  /\ attempt = login_max_retries
  /\ close_effect
  /\ log' = log \o (IF close_quits THEN <<"quit">> ELSE <<>>)
  /\ held' = TRUE
  /\ pc' = "idle"
  /\ UNCHANGED <<username, password, attempt, loggedIn, raised, raisedIn, ret,
                 page, yields, calls, closes, parserVars, listingVars, runVars, saVars>>

\* lines 71-74: the loop ended without a login
login_exhausted ==
  /\ pc = "login"
  /\ attempt = login_max_retries
  /\ close_effect
  /\ log' = log \o (IF close_quits THEN <<"quit">> ELSE <<>>) \o <<"raise">>
  /\ raised' = "Exception" /\ raisedIn' = "login"
  /\ pc' = "failed"
  /\ UNCHANGED <<username, password, attempt, loggedIn, held, ret, page, yields,
                 calls, closes, parserVars, listingVars, runVars, saVars>>

\* get_followers(company_url) entered: lines 102-106
get_followers_enter(company_url) ==
  /\ calls' = calls + 1
  /\ IF company_url = ""
     THEN /\ ret' = None
          /\ log' = Append(log, "return None")
          /\ yields' = <<>>
          /\ UNCHANGED <<pc, attempt>>
     ELSE /\ pc' = "get"
          /\ attempt' = 0
          /\ yields' = <<>>
          /\ UNCHANGED <<ret, log>>
  /\ UNCHANGED <<username, password, driver, quits, loggedIn, held, raised,
                 raisedIn, page, closes, parserVars, listingVars, saVars>>

\* line 147: `if attempt < max_retries - 1` before time.sleep(2)
get_followers_sleeps == attempt < get_max_retries - 1

\* one pass of the loop of get_followers: lines 107-149.  A quit browser
\* answers no command: driver.get raises
get_followers_attempt ==
  /\ pc = "get"
  /\ attempt < get_max_retries
  /\ \E outcome \in (IF driver = "open" THEN Outcomes
                     ELSE {Raises("WebDriverException")}) :
       LET got  == IF outcome.exc # "none" THEN Failed(outcome.exc)
                   ELSE ScrapePage(outcome.page)
       IN  /\ page' = IF outcome.exc # "none" THEN page ELSE outcome.page
           /\ yields' = Append(yields, got)
           /\ IF got.tag = "int"
              THEN /\ ret' = got
                   /\ log' = log \o <<"get", "return int">>
                   /\ pc' = "idle"
                   /\ UNCHANGED <<attempt, raised, raisedIn>>
              ELSE IF got = NotFound \/ get_followers_catches(got.tag)
              THEN /\ log' = log \o <<"get", "get_fail">>
                              \o (IF get_followers_sleeps
                                  THEN <<"sleep(2)">> ELSE <<>>)
                   /\ attempt' = attempt + 1
                   /\ UNCHANGED <<ret, pc, raised, raisedIn>>
              ELSE /\ log' = log \o <<"get", "raise">>
                   /\ raised' = got.tag /\ raisedIn' = "get_followers"
                   /\ pc' = "idle"
                   /\ UNCHANGED <<ret, attempt>>
  /\ UNCHANGED <<username, password, driver, quits, loggedIn, held, calls,
                 closes, parserVars, listingVars, runVars, saVars>>

\* lines 151-153: all retries failed
get_followers_exhausted ==
  /\ pc = "get"
  /\ attempt = get_max_retries
  /\ ret' = None
  /\ log' = Append(log, "return None")
  /\ pc' = "idle"
  /\ UNCHANGED <<username, password, driver, quits, attempt, loggedIn, held,
                 raised, raisedIn, page, yields, calls, closes, parserVars, listingVars,
                 runVars, saVars>>

\* close(), lines 155-159
close ==
  /\ close_effect
  /\ log' = log \o (IF close_quits THEN <<"quit">> ELSE <<>>)
  /\ UNCHANGED <<username, password, pc, attempt, loggedIn, held, raised,
                 raisedIn, ret, page, yields, calls, parserVars, listingVars, saVars>>

\* ------------------------------------------------------------------------
\* A caller that holds the session and calls its methods in any order
\* ------------------------------------------------------------------------

\* calls of get_followers and of close() the caller makes at most
MaxCalls == 2
MaxCloses == 2

SessionInit ==
  /\ username \in EnvValues /\ password \in EnvValues
  /\ pc = "start" /\ driver = "none" /\ quits = 0 /\ attempt = 0
  /\ loggedIn = FALSE /\ held = FALSE /\ raised = "none" /\ raisedIn = "none"
  /\ ret = Unset /\ page = NoPage /\ yields = <<>> /\ log = <<>>
  /\ calls = 0 /\ closes = 0

Init ==
  /\ SessionInit /\ ParserIdle /\ RunIdle /\ StandaloneIdle /\ JobsIdle /\ FetchIdle

CallerIdle == pc = "idle" /\ held /\ raised = "none"

CallGetFollowers ==
  /\ CallerIdle
  /\ calls < MaxCalls
  /\ \E company_url \in Urls \cup {""} : get_followers_enter(company_url)
  /\ UNCHANGED runVars

CallClose ==
  /\ CallerIdle
  /\ closes < MaxCloses
  /\ closes' = closes + 1
  /\ close
  /\ UNCHANGED runVars

Next ==
  \/ __init__
  \/ login_attempt
  \/ login_exhausted
  \/ CallGetFollowers
  \/ get_followers_attempt
  \/ get_followers_exhausted
  \/ CallClose

Spec == Init /\ [][Next]_vars

\* ------------------------------------------------------------------------
\* The run: one owner opens the session, looks up each company, and closes
\* the session in a cleanup that every exit path goes through
\* ------------------------------------------------------------------------

RunInit ==
  /\ SessionInit /\ ParserIdle /\ StandaloneIdle /\ JobsIdle /\ FetchIdle
  /\ todo \in SUBSET Urls
  /\ aborted = FALSE
  /\ EnrichIdle

\* the next company of the set of distinct URLs is looked up
run_scrape ==
  /\ CallerIdle /\ closes = 0 /\ ~aborted
  /\ \E company_url \in todo :
       /\ get_followers_enter(company_url)
       /\ todo' = todo \ {company_url}
  /\ UNCHANGED <<aborted, enrichVars>>

\* an exception partway through the enrichment
run_raise ==
  /\ CallerIdle /\ closes = 0 /\ ~aborted
  /\ todo # {}
  /\ aborted' = TRUE
  /\ UNCHANGED <<todo, enrichVars, sessionVars, parserVars, listingVars,
                 saVars>>

\* the cleanup: close() once, whether the enrichment completed or raised
run_cleanup ==
  /\ CallerIdle /\ closes = 0
  /\ todo = {} \/ aborted
  /\ closes' = 1
  /\ close
  /\ UNCHANGED runVars

RunEnded == pc = "failed" \/ closes = 1

RunNext ==
  \/ __init__
  \/ login_attempt
  \/ login_exhausted
  \/ run_scrape
  \/ get_followers_attempt
  \/ get_followers_exhausted
  \/ run_raise
  \/ run_cleanup

SpecRun == RunInit /\ [][RunNext]_vars

\* ------------------------------------------------------------------------
\* get_linkedin_followers (src/test_selenium.py)
\* ------------------------------------------------------------------------

\* longest count text in front of the word "followers" in the h3 element
MaxH3Len == 2

H3Alphabet == {"8", "5", ",", " ", "x"}

RECURSIVE H3TextsOfLen(_)
H3TextsOfLen(n) ==
  IF n = 0 THEN {<<>>}
  ELSE {Append(t, c) : t \in H3TextsOfLen(n - 1), c \in H3Alphabet}

H3Tails == {<<" ">> \o FOLLOWERS, FOLLOWERS, <<" ", "F">> \o Tail(FOLLOWERS)}

\* the example of the comment at line 63
Text_85_739 == <<"8", "5", ",", "7", "3", "9", " ">> \o FOLLOWERS

H3Texts ==
  {t \o tail : t \in UNION {H3TextsOfLen(n) : n \in 0..MaxH3Len}, tail \in H3Tails}
    \cup {Text_85_739, NoElement}

\* the two target URLs of the script
TargetUrls == {"sg/company/shijigroup", "uk/school/calyptus-web3"}

\* [\d,]
IsCountChar(c) == IsDigit(c) \/ c = ","

\* ([\d,]+)\s+followers matches s with its group at i..j
MatchesCount(s, i, j) ==
  /\ i <= j
  /\ \A k \in i..j : IsCountChar(s[k])
  /\ \E w \in (j + 1)..Len(s) :
       /\ \A k \in (j + 1)..w : IsSpace(s[k])
       /\ MatchAt(s, FOLLOWERS, w + 1)

\* re.search: the leftmost match, its group as long as it can be; NoElement
\* without a match
SearchCount(s) ==
  IF ~\E i, j \in 1..Len(s) : MatchesCount(s, i, j) THEN NoElement
  ELSE LET i == CHOOSE a \in 1..Len(s) :
                  /\ \E j \in 1..Len(s) : MatchesCount(s, a, j)
                  /\ \A b \in 1..(a - 1) : ~\E j \in 1..Len(s) : MatchesCount(s, b, j)
           j == CHOOSE b \in 1..Len(s) :
                  /\ MatchesCount(s, i, b)
                  /\ \A c \in (b + 1)..Len(s) : ~MatchesCount(s, i, c)
       IN  SubSeq(s, i, j)

\* int(str): digits, at least one
PyInt(s) ==
  IF s # <<>> /\ \A i \in 1..Len(s) : IsDigit(s[i])
  THEN Int32(DigitsValue(s))
  ELSE Raised("ValueError")

\* lines 54-68: followers_count after the page was parsed, or what was raised
ParseH3(h3) ==
  IF h3 = NoElement THEN None
  ELSE LET followers_str == SearchCount(Strip(h3))
       IN  IF followers_str = NoElement THEN None
           ELSE PyInt(Remove(followers_str, <<",">>))

StandaloneInit ==
  /\ sa_url \in TargetUrls
  /\ sa_pc = "start" /\ sa_driver = "none" /\ sa_quits = 0
  /\ sa_h3 = NoElement /\ sa_count = None /\ sa_exc = "none" /\ sa_ret = Unset
  /\ ParserIdle /\ SessionIdle /\ RunIdle /\ JobsIdle /\ FetchIdle

\* line 45: webdriver.Chrome(...)
sa_launch ==
  /\ sa_pc = "start"
  /\ \E launched \in BOOLEAN :
       IF launched
       THEN /\ sa_driver' = "open" /\ sa_pc' = "get" /\ UNCHANGED sa_exc
       ELSE /\ sa_exc' = "WebDriverException" /\ sa_pc' = "except"
            /\ UNCHANGED sa_driver
  /\ UNCHANGED <<sa_url, sa_quits, sa_h3, sa_count, sa_ret, parserVars, listingVars,
                 sessionVars, runVars>>

\* lines 46-51: driver.get(url) and page_source
sa_get ==
  /\ sa_pc = "get"
  /\ \/ /\ sa_exc' = "WebDriverException" /\ sa_pc' = "except"
        /\ UNCHANGED sa_h3
     \/ /\ sa_h3' \in H3Texts
        /\ sa_pc' = "parse"
        /\ UNCHANGED sa_exc
  /\ UNCHANGED <<sa_url, sa_driver, sa_quits, sa_count, sa_ret, parserVars, listingVars,
                 sessionVars, runVars>>

\* lines 54-68
sa_parse ==
  /\ sa_pc = "parse"
  /\ LET got == ParseH3(sa_h3)
     IN  IF got.tag \in {"int", "None"}
         THEN /\ sa_count' = got /\ sa_pc' = "sleep" /\ UNCHANGED sa_exc
         ELSE /\ sa_exc' = got.tag /\ sa_pc' = "except" /\ UNCHANGED sa_count
  /\ UNCHANGED <<sa_url, sa_driver, sa_quits, sa_h3, sa_ret, parserVars, listingVars,
                 sessionVars, runVars>>

\* line 69: time.sleep(3000)
sa_sleep ==
  /\ sa_pc = "sleep"
  /\ sa_pc' = "finally"
  /\ UNCHANGED <<sa_url, sa_driver, sa_quits, sa_h3, sa_count, sa_exc, sa_ret,
                 parserVars, listingVars, sessionVars, runVars>>

\* lines 70-72: except Exception, return None
sa_except ==
  /\ sa_pc = "except"
  /\ sa_pc' = "finally"
  /\ UNCHANGED <<sa_url, sa_driver, sa_quits, sa_h3, sa_count, sa_exc, sa_ret,
                 parserVars, listingVars, sessionVars, runVars>>

\* Mutant of sa_quits_driver: the finally block quits without the test
sa_quits_driver_always == TRUE

\* `if driver:` at line 76
sa_quits_driver == sa_driver # "none"

\* lines 74-80: the finally block, then the pending return
sa_finally ==
  /\ sa_pc = "finally"
  /\ sa_quits' = IF sa_quits_driver THEN sa_quits + 1 ELSE sa_quits
  /\ sa_ret' = IF sa_exc # "none" THEN None ELSE sa_count
  /\ sa_pc' = "returned"
  /\ UNCHANGED <<sa_url, sa_driver, sa_h3, sa_count, sa_exc, parserVars, listingVars,
                 sessionVars, runVars>>

StandaloneNext ==
  \/ sa_launch
  \/ sa_get
  \/ sa_parse
  \/ sa_sleep
  \/ sa_except
  \/ sa_finally

SpecStandalone == StandaloneInit /\ [][StandaloneNext]_vars

\* ------------------------------------------------------------------------
\* parse_linkedin_jobs (src/main.py)
\* ------------------------------------------------------------------------

\* a value of an Optional[str] field
Str(s) == [tag |-> "str", val |-> s]

\* a Tag of the parsed document: its name, its classes, its other attributes
\* as name-value pairs, its own text and its child tags
Tag(name, class, attrs, string, children) ==
  [name |-> name, class |-> class, attrs |-> attrs, string |-> string,
   children |-> children]

\* the tags below a sequence of sibling tags, in document order
RECURSIVE Descendants(_)
Descendants(tags) ==
  IF tags = <<>> THEN <<>>
  ELSE <<Head(tags)>> \o Descendants(Head(tags).children)
                      \o Descendants(Tail(tags))

\* soup.find_all(name, class_=...): every matching tag, in document order
find_all(tags, name, class_) ==
  SelectSeq(Descendants(tags),
            LAMBDA t : t.name = name /\ class_ \in t.class)

\* tag.find('a'): the matching tags below it; find returns the first, or
\* None when the sequence is empty
find_name(tag, name) ==
  SelectSeq(Descendants(tag.children), LAMBDA t : t.name = name)

\* tag.find(name, class_=...)
find(tag, name, class_) == find_all(tag.children, name, class_)

\* tag.get_text(strip=True): the stripped strings of the tag and of the
\* tags below it, joined
RECURSIVE TextOf(_)
TextOf(tags) ==
  IF tags = <<>> THEN <<>>
  ELSE Strip(Head(tags).string) \o TextOf(Head(tags).children)
                                \o TextOf(Tail(tags))

get_text(tag) == TextOf(<<tag>>)

HasAttr(tag, key) == \E kv \in tag.attrs : kv[1] = key

AttrValue(tag, key) == (CHOOSE kv \in tag.attrs : kv[1] = key)[2]

\* tag[key]: KeyError without the attribute
GetItem(tag, key) ==
  IF HasAttr(tag, key) THEN Str(AttrValue(tag, key)) ELSE Raised("KeyError")

\* tag.get(key, default)
Get(tag, key, default) ==
  IF HasAttr(tag, key) THEN Str(AttrValue(tag, key)) ELSE default

\* lines 36-73: the record of one card; the fields that raised carry the
\* exception
JobData(card) ==
  LET title_element   == find(card, "h3", "base-search-card__title")
      company_element == find(card, "h4", "base-search-card__subtitle")
      location_element == find(card, "span", "job-search-card__location")
      url_element     == find(card, "a", "base-card__full-link")
      date_element    == find(card, "time", "job-search-card__listdate")
      logo_element    == find(card, "img", "artdeco-entity-image")
  IN  [title |-> IF title_element # <<>>
                 THEN Str(get_text(title_element[1])) ELSE None,
       company |-> IF company_element # <<>>
                      /\ find_name(company_element[1], "a") # <<>>
                   THEN Str(get_text(find_name(company_element[1], "a")[1]))
                   ELSE None,
       location |-> IF location_element # <<>>
                    THEN Str(get_text(location_element[1])) ELSE None,
       url |-> IF url_element # <<>>
               THEN GetItem(url_element[1], "href") ELSE None,
       date_posted_text |-> IF date_element # <<>>
                            THEN Str(get_text(date_element[1])) ELSE None,
       date_posted_iso |-> IF date_element # <<>>
                           THEN GetItem(date_element[1], "datetime") ELSE None,
       company_logo_url |-> IF logo_element # <<>>
                            THEN Get(logo_element[1], "data-delayed-url",
                                     Get(logo_element[1], "src", None))
                            ELSE None]

\* the fields in the order the function body computes them
JobFields ==
  <<"title", "company", "location", "url", "date_posted_text",
    "date_posted_iso", "company_logo_url">>

\* the first exception the body raises on a card, "none" without one
JobRaises(job) ==
  LET bad == SelectSeq(JobFields, LAMBDA f : job[f].tag \notin {"str", "None"})
  IN  IF bad = <<>> THEN "none" ELSE job[bad[1]].tag

\* --- documents ---

\* most job cards of a generated document, most tags inside a generated card
MaxCards == 2
MaxCardTags == 1

Leaf(name, class_, attrs, string) == Tag(name, {class_}, attrs, string, <<>>)

\* the sequences of length n over a set
RECURSIVE SeqsOfLen(_, _)
SeqsOfLen(S, n) ==
  IF n = 0 THEN {<<>>}
  ELSE {Append(s, e) : s \in SeqsOfLen(S, n - 1), e \in S}

TitleTag == Leaf("h3", "base-search-card__title", {}, <<" ", "T", " ">>)

CompanyLink == Leaf("a", "hidden-nested-link", {<<"href", "c">>}, <<" ", "C">>)

\* <h4 class="base-search-card__subtitle">, around the company link
SubtitleTag(children) ==
  Tag("h4", {"base-search-card__subtitle"}, {}, <<>>, children)

LocationTag == Leaf("span", "job-search-card__location", {}, <<"P", " ">>)

\* <a class="base-card__full-link" href=...>
FullLink(attrs) == Leaf("a", "base-card__full-link", attrs, <<"T">>)

\* <time class="job-search-card__listdate" datetime=...>
ListDate(attrs) == Leaf("time", "job-search-card__listdate", attrs, <<"2", "w">>)

\* <img class="artdeco-entity-image" data-delayed-url=...>
Logo(attrs) == Leaf("img", "artdeco-entity-image", attrs, <<>>)

BenefitsTag == Leaf("div", "job-posting-benefits", {}, <<"B">>)

\* the tags of a generated card: each element with and without the child
\* or the attributes the function reads
CardTags ==
  {TitleTag, SubtitleTag(<<CompanyLink>>), SubtitleTag(<<>>), LocationTag,
   FullLink({<<"href", "u">>}), FullLink({}),
   ListDate({<<"datetime", "d">>}), ListDate({}),
   Logo({<<"data-delayed-url", "l">>}),
   Logo({<<"data-delayed-url", "l">>, <<"src", "s">>}),
   Logo({<<"src", "s">>}), Logo({}), BenefitsTag}

\* <div class="base-card ... base-search-card ... job-search-card">
Card(children) ==
  Tag("div", {"base-card", "base-search-card", "job-search-card"}, {}, <<>>,
      children)

\* <li> around a card, as in the document of lines 81-325
Li(children) == Tag("li", {}, {}, <<>>, children)

\* a card of the document of lines 81-325: link, logo, title, company,
\* location, benefits, date
ExampleCard ==
  Card(<<FullLink({<<"href", "u">>}), Logo({<<"data-delayed-url", "l">>}),
         TitleTag, SubtitleTag(<<CompanyLink>>), LocationTag, BenefitsTag,
         ListDate({<<"datetime", "d">>})>>)

\* the generated cards, the example card bare and inside <li>, a card whose
\* link has no href and whose date has no datetime, a card inside a card,
\* and a tag that is no card
TopTags ==
  {Card(ts) : ts \in UNION {SeqsOfLen(CardTags, n) : n \in 0..MaxCardTags}}
    \cup {ExampleCard, Li(<<ExampleCard>>),
          Card(<<FullLink({}), TitleTag, ListDate({})>>),
          Card(<<TitleTag, Card(<<LocationTag>>)>>),
          BenefitsTag}

\* html_from_linkedin, lines 81-325
ExampleDocument == <<Li(<<ExampleCard>>), Li(<<ExampleCard>>)>>

Documents ==
  UNION {SeqsOfLen(TopTags, n) : n \in 0..MaxCards} \cup {ExampleDocument}

\* --- the function ---

JobsInit ==
  /\ html_content \in Documents
  /\ jobs_pc = "start" /\ job_cards = <<>> /\ card_index = 0
  /\ extracted_jobs = <<>> /\ jobs_exc = "none"
  /\ FetchIdle /\ ParserIdle /\ SessionIdle /\ RunIdle /\ StandaloneIdle

\* lines 28-32
find_job_cards ==
  /\ jobs_pc = "start"
  /\ job_cards' = find_all(html_content, "div", "base-search-card")
  /\ card_index' = 1
  /\ jobs_pc' = "loop"
  /\ UNCHANGED <<html_content, extracted_jobs, jobs_exc, fetchVars,
                 parserVars, sessionVars, runVars, saVars>>

\* lines 34-75: one pass of the loop
parse_card ==
  /\ jobs_pc = "loop"
  /\ card_index <= Len(job_cards)
  /\ LET job_data == JobData(job_cards[card_index])
     IN  IF JobRaises(job_data) = "none"
         THEN /\ extracted_jobs' = Append(extracted_jobs, job_data)
              /\ card_index' = card_index + 1
              /\ UNCHANGED <<jobs_pc, jobs_exc>>
         ELSE /\ jobs_exc' = JobRaises(job_data)
              /\ jobs_pc' = "raised"
              /\ UNCHANGED <<extracted_jobs, card_index>>
  /\ UNCHANGED <<html_content, job_cards, fetchVars, parserVars, sessionVars,
                 runVars, saVars>>

\* line 77
return_jobs ==
  /\ jobs_pc = "loop"
  /\ card_index > Len(job_cards)
  /\ jobs_pc' = "returned"
  /\ UNCHANGED <<html_content, job_cards, card_index, extracted_jobs, jobs_exc,
                 fetchVars, parserVars, sessionVars, runVars, saVars>>

JobsNext ==
  \/ find_job_cards
  \/ parse_card
  \/ return_jobs

SpecJobs == JobsInit /\ [][JobsNext]_vars

\* ------------------------------------------------------------------------
\* fetchListings (PaginationController)
\* ------------------------------------------------------------------------

\* largest limit of a query, most listings the endpoint has for it
MaxLimit == 51
MaxAvailable == 52

\* the page granularity of the endpoint
pageSize == 25

Min(a, b) == IF a <= b THEN a ELSE b

\* ceil(limit / pageSize)
pagesNeeded(l) == (l + pageSize - 1) \div pageSize

\* the listings of the endpoint for the query, in upstream order
Upstream == [i \in 1..totalAvailable |-> i]

\* PageFetcher and ListingExtractor: the listings of the response for `start`
PageAt(start) ==
  IF start >= totalAvailable THEN <<>>
  ELSE SubSeq(Upstream, start + 1, Min(start + pageSize, totalAvailable))

\* Mutant of on_transport_failure: the loop goes on with the next offset
on_transport_failure_continue == "loop"

\* transport failure: abort the loop
on_transport_failure == "done"

\* Mutant of on_empty_page: the loop goes on with the next offset
on_empty_page_continue == "loop"

\* zero listings from a successful response: stop paging
on_empty_page == "done"

\* Mutant of Truncate: the accumulator is returned whole
Truncate_nothing(items, l) == items

\* the result is cut to `limit` items
Truncate(items, l) == SubSeq(items, 1, Min(l, Len(items)))

FetchInit ==
  /\ limit \in 1..MaxLimit
  /\ totalAvailable \in 0..MaxAvailable
  /\ transport = {} /\ fetch_pc = "loop" /\ offset = 0 /\ requests = <<>>
  /\ accumulated = <<>> /\ sawEmpty = FALSE /\ fetched = <<>>
  /\ JobsIdle /\ ParserIdle /\ SessionIdle /\ RunIdle /\ StandaloneIdle

\* one pass of the loop: the request for `offset` and what follows from it
fetch_page ==
  /\ fetch_pc = "loop"
  /\ offset < pagesNeeded(limit) * pageSize
  /\ requests' = Append(requests, offset)
  /\ \E ok \in BOOLEAN :
       IF ~ok
       THEN /\ transport' = transport \cup {offset}
            /\ fetch_pc' = on_transport_failure
            /\ offset' = IF on_transport_failure = "loop"
                         THEN offset + pageSize ELSE offset
            /\ UNCHANGED <<accumulated, sawEmpty>>
       ELSE IF PageAt(offset) = <<>>
       THEN /\ sawEmpty' = TRUE
            /\ fetch_pc' = on_empty_page
            /\ offset' = IF on_empty_page = "loop"
                         THEN offset + pageSize ELSE offset
            /\ UNCHANGED <<accumulated, transport>>
       ELSE /\ accumulated' = accumulated \o PageAt(offset)
            /\ IF Len(accumulated') >= limit
               THEN fetch_pc' = "done" /\ UNCHANGED offset
               ELSE offset' = offset + pageSize /\ UNCHANGED fetch_pc
            /\ UNCHANGED <<transport, sawEmpty>>
  /\ UNCHANGED <<limit, totalAvailable, fetched, jobsVars, parserVars,
                 sessionVars, runVars, saVars>>

\* the loop is over: the truncated accumulator is returned
fetch_return ==
  /\ \/ fetch_pc = "done"
     \/ fetch_pc = "loop" /\ offset >= pagesNeeded(limit) * pageSize
  /\ fetched' = Truncate(accumulated, limit)
  /\ fetch_pc' = "returned"
  /\ UNCHANGED <<limit, totalAvailable, transport, offset, requests,
                 accumulated, sawEmpty, jobsVars, parserVars, sessionVars,
                 runVars, saVars>>

FetchNext ==
  \/ fetch_page
  \/ fetch_return

SpecFetch == FetchInit /\ [][FetchNext]_vars

\* ------------------------------------------------------------------------
\* enrich (EnrichmentController) over the session of SeleniumManager
\* ------------------------------------------------------------------------

\* most listings of a generated argument
MaxListings == 2

\* the company URL of a listing without one
NullUrl == "null"

\* the listings with these company URLs, not enriched yet
ListingsOf(company_urls) ==
  [i \in 1..Len(company_urls) |->
     [id |-> i, company_url |-> company_urls[i], followers |-> None]]

\* 5 listings that reference 2 distinct company URLs
FiveListings ==
  <<"company/a", "company/b", "company/a", "company/a", "company/b">>

ListingSeqs ==
  {ListingsOf(us) :
     us \in UNION {SeqsOfLen(Urls \cup {NullUrl}, n) : n \in 0..MaxListings}
              \cup {FiveListings}}

\* Mutant of DistinctCompanyUrls: the listings without a URL are kept
DistinctCompanyUrls_with_null(ls) == {ls[i].company_url : i \in 1..Len(ls)}

\* the set of distinct non-null company URLs of the listings
DistinctCompanyUrls(ls) ==
  {ls[i].company_url : i \in 1..Len(ls)} \ {NullUrl}

\* Mutant of CachedFollowers: the result of the last lookup, whatever its URL
CachedFollowers_last(company_url) == IF ret = Unset THEN None ELSE ret

\* the cached result for a company URL, absent without a company URL
CachedFollowers(company_url) ==
  IF company_url \in DOMAIN cache THEN cache[company_url] ELSE None

\* the session as SeleniumManager() returned it: logged in at the first
\* attempt, no call made yet
Authenticated ==
  /\ username = "set" /\ password = "set"
  /\ pc = "idle" /\ driver = "open" /\ quits = 0 /\ attempt = 0
  /\ loggedIn = TRUE /\ held = TRUE /\ raised = "none" /\ raisedIn = "none"
  /\ ret = Unset /\ page = NoPage /\ yields = <<>>
  /\ log = <<"launch", "login_get", "login_ok">>
  /\ calls = 0 /\ closes = 0

EnrichInit ==
  /\ Authenticated
  /\ listings \in ListingSeqs
  /\ enrich_pc = "start" /\ pending = {} /\ current = ""
  /\ cache = NoCache /\ scrapes = <<>> /\ enriched = <<>>
  /\ todo = {} /\ aborted = FALSE
  /\ ParserIdle /\ StandaloneIdle /\ JobsIdle /\ FetchIdle

\* the set of distinct company URLs is computed
enrich_start ==
  /\ enrich_pc = "start"
  /\ pending' = DistinctCompanyUrls(listings)
  /\ enrich_pc' = "scrape"
  /\ UNCHANGED <<listings, current, cache, scrapes, enriched, todo, aborted,
                 sessionVars, parserVars, listingVars, saVars>>

\* the scraper is invoked for one of the URLs not yet looked up
enrich_scrape ==
  /\ enrich_pc = "scrape" /\ CallerIdle
  /\ \E company_url \in pending :
       /\ get_followers_enter(company_url)
       /\ pending' = pending \ {company_url}
       /\ current' = company_url
       /\ scrapes' = Append(scrapes, company_url)
  /\ enrich_pc' = "wait"
  /\ UNCHANGED <<listings, cache, enriched, todo, aborted>>

\* the lookup returned: its result is cached under the URL
enrich_store ==
  /\ enrich_pc = "wait" /\ CallerIdle
  /\ cache' = [u \in DOMAIN cache \cup {current} |->
                 IF u = current THEN ret ELSE cache[u]]
  /\ enrich_pc' = "scrape"
  /\ UNCHANGED <<listings, pending, current, scrapes, enriched, todo, aborted,
                 sessionVars, parserVars, listingVars, saVars>>

\* every URL is looked up: each listing gets the cached result of its URL
enrich_fill ==
  /\ enrich_pc = "scrape" /\ pending = {}
  /\ enriched' = [i \in 1..Len(listings) |->
                    [listings[i] EXCEPT
                       !.followers = CachedFollowers(listings[i].company_url)]]
  /\ enrich_pc' = "done"
  /\ UNCHANGED <<listings, pending, current, cache, scrapes, todo, aborted,
                 sessionVars, parserVars, listingVars, saVars>>

EnrichNext ==
  \/ enrich_start
  \/ enrich_scrape
  \/ get_followers_attempt
  \/ get_followers_exhausted
  \/ enrich_store
  \/ enrich_fill

SpecEnrich == EnrichInit /\ [][EnrichNext]_vars

\* ------------------------------------------------------------------------
\* Properties
\* ------------------------------------------------------------------------

Count(s, e) == Cardinality({i \in 1..Len(s) : s[i] = e})

IsPrefix(s, t) == Len(s) <= Len(t) /\ SubSeq(t, 1, Len(s)) = s

RECURSIVE Repeat(_, _)
Repeat(s, n) == IF n = 0 THEN <<>> ELSE s \o Repeat(s, n - 1)

FailedLogin == <<"login_get", "login_fail">>

\* what the log starts with when login succeeds at attempt k
LoginTrace(k) ==
  <<"launch">> \o Repeat(FailedLogin \o <<"sleep(3)">>, k - 1)
    \o <<"login_get", "login_ok">>

\* C1: when attempts 1..k-1 of login fail and attempt k <= 3 succeeds, login
\* returns without raising, no login attempt follows the successful one, and
\* login leaves the browser open (every quit is a close() of the caller).
C1_LoginSucceedsAtFirstSuccess ==
  loggedIn =>
    /\ \E k \in 1..3 : IsPrefix(LoginTrace(k), log)
    /\ Count(log, "login_ok") = 1
    /\ Count(log, "login_get") = Count(log, "login_fail") + 1
    /\ held /\ raisedIn # "login" /\ pc # "login"
    /\ quits = closes
    /\ closes = 0 => driver = "open"

\* two failed attempts, then a successful one
C1_Witness ==
  /\ loggedIn /\ held
  /\ IsPrefix(LoginTrace(3), log)
  /\ driver = "open"

\* C2: after 3 failed login attempts there is no fourth one; the browser is
\* quit and then the error is raised to the caller of the constructor.
C2_ExhaustedLoginQuitsThenRaises ==
  /\ Count(log, "login_get") <= 3
  /\ Count(log, "login_fail") = 3 => ~loggedIn /\ pc \in {"login", "failed"}
  /\ raisedIn = "login" =>
       /\ log = <<"launch">> \o Repeat(FailedLogin \o <<"sleep(3)">>, 2)
                  \o FailedLogin \o <<"quit", "raise">>
       /\ raised = "Exception"
       /\ driver = "quit" /\ quits = 1
       /\ ~held /\ pc = "failed"

C2_Witness ==
  /\ raisedIn = "login" /\ raised = "Exception"
  /\ Count(log, "login_fail") = 3
  /\ log[Len(log)] = "raise" /\ log[Len(log) - 1] = "quit"

\* C3: in a run that started a browser, the browser is quit exactly once by
\* the end of the run (login exhausted, enrichment ended by an exception, or
\* enrichment completed), and is never quit twice.
C3_SessionTornDownExactlyOnce ==
  /\ quits <= 1
  /\ RunEnded /\ driver # "none" => quits = 1 /\ driver = "quit"

\* the enrichment raised after one lookup, and the cleanup ran
C3_Witness ==
  /\ RunEnded /\ aborted
  /\ calls = 1 /\ Count(log, "get") >= 1
  /\ quits = 1 /\ driver = "quit"

\* C4: close() on a session that is already closed does not quit the browser
\* again and changes nothing.
C4_CloseIsIdempotent ==
  [][driver = "quit" /\ closes' = closes + 1 => quits' = quits /\ log' = log]_vars

\* C5: no exception leaves get_followers; a call whose last attempt failed
\* (timeout, other exception, element not found, text that does not parse)
\* returned None, and the caller goes on with the next lookup.
C5_GetFollowersNeverRaises ==
  /\ raisedIn # "get_followers"
  /\ pc = "idle" => raised = "none"
  /\ pc = "idle" /\ yields # <<>> /\ yields[Len(yields)].tag # "int" => ret = None

\* a timeout, an unexpected exception and a text whose parse raises, then
\* the next lookup
C5_Witness ==
  /\ pc = "get" /\ calls = 2 /\ ret = None
  /\ \E i \in 1..Len(log) :
       /\ log[i] = "return None"
       /\ Count(SubSeq(log, 1, i), "get") = 3

\* C6: a get_followers call on a non-empty URL makes at most 3 attempts, all
\* but the last of them failed; it returns the count of the attempt that
\* gave one, and None exactly when the third attempt failed too.
C6_GetFollowersFirstCountWithinThree ==
  /\ Len(yields) <= 3
  /\ \A i \in 1..(Len(yields) - 1) : yields[i].tag # "int"
  /\ pc = "get" => Len(yields) = attempt /\ \A i \in 1..Len(yields) : yields[i].tag # "int"
  /\ pc = "idle" /\ yields # <<>> =>
       LET last == yields[Len(yields)]
       IN  /\ last.tag = "int" => ret = last
           /\ last.tag # "int" => Len(yields) = 3 /\ ret = None
           /\ ret = None <=> (Len(yields) = 3 /\ last.tag # "int")

\* the third attempt gave the count
C6_Witness ==
  /\ pc = "idle" /\ Len(yields) = 3
  /\ yields[1].tag = "TimeoutException" /\ yields[2] = NotFound
  /\ yields[3] = Int32(1200) /\ ret = Int32(1200)

\* C7: with a credential missing or empty the constructor raises the
\* configuration error; no browser is launched and no login page is opened.
C7_MissingCredentialsFailBeforeBrowser ==
  username \in {"none", ""} \/ password \in {"none", ""} =>
    /\ driver = "none" /\ quits = 0
    /\ Count(log, "launch") = 0 /\ Count(log, "login_get") = 0
    /\ ~held /\ ~loggedIn
    /\ pc # "start" => raised = "ValueError" /\ raisedIn = "__init__" /\ pc = "failed"

C7_Witness ==
  /\ username = "set" /\ password = ""
  /\ raised = "ValueError" /\ driver = "none"

\* C8: a caller holds a session only after a successful login, company pages
\* are opened only on a held session, and after login exhausted its retries
\* no session is held and no company page is ever opened.
C8_NoSessionWithoutLogin ==
  /\ held => loggedIn
  /\ pc = "get" \/ calls > 0 \/ Count(log, "get") > 0 => held /\ loggedIn
  /\ raisedIn = "login" => ~held /\ calls = 0 /\ Count(log, "get") = 0

C8_Witness ==
  /\ raisedIn = "login" /\ pc = "failed"
  /\ ~held /\ ~loggedIn /\ calls = 0

\* the text in front of a final " followers", any case
Stem(s) ==
  IF Len(s) >= 10 /\ Lower(SubSeq(s, Len(s) - 9, Len(s))) = <<" ">> \o FOLLOWERS
  THEN SubSeq(s, 1, Len(s) - 10)
  ELSE s

HasSuffix(s) == s # <<>> /\ s[Len(s)] \in {"k", "K", "m", "M"}

SuffixFactor(s) ==
  IF ~HasSuffix(s) THEN 1
  ELSE IF s[Len(s)] \in {"k", "K"} THEN 1000
  ELSE 1000000

\* the stem without its suffix letter and its thousands separators
NumericPart(s) ==
  Remove(IF HasSuffix(s) THEN SubSeq(s, 1, Len(s) - 1) ELSE s, <<",">>)

\* C9: for "<number><k|m|nothing> followers" the result is the number times
\* 1,000, 1,000,000 or 1 ('1.2K followers' -> 1200, '3M followers' ->
\* 3000000, '12,345 followers' -> 12345); for a text without any digit
\* ('abc followers') the result is None, and nothing is raised.
C9_ParsesFollowerText ==
  parsed # Unset =>
    /\ text = Text_1_2K => parsed = Int32(1200)
    /\ text = Text_3M => parsed = Int32(3000000)
    /\ text = Text_12_345 => parsed = Int32(12345)
    /\ text = Text_abc => parsed = None
    /\ parsed.tag \in {"int", "None"}
    /\ LET num == NumericPart(Stem(text))
           n   == DigitsValue(num) * SuffixFactor(Stem(text))
           d   == Pow(10, FracDigits(num))
       IN  /\ IsDecimal(num) /\ n % d = 0 => parsed = Int32(n \div d)
           /\ (\A i \in 1..Len(text) : ~IsDigit(text[i])) => parsed = None

\* C10: get_linkedin_followers quits the browser it launched exactly once
\* before it returns, on every path; it quits nothing when the launch
\* failed; it returns None whenever an exception occurred.
C10_StandaloneQuitsOnce ==
  /\ sa_quits <= 1
  /\ sa_driver = "none" => sa_quits = 0
  /\ sa_pc = "returned" =>
       /\ sa_driver = "open" => sa_quits = 1
       /\ sa_exc # "none" => sa_ret = None

\* int('') raised after the match, the browser was quit, None was returned
C10_Witness ==
  /\ sa_pc = "returned" /\ sa_exc = "ValueError"
  /\ sa_driver = "open" /\ sa_quits = 1 /\ sa_ret = None

\* the job cards of a document, in document order
CardsOf(document) ==
  SelectSeq(Descendants(document),
            LAMBDA t : t.name = "div" /\ "base-search-card" \in t.class)

\* the first tag below a card with a name and a class, <<>> without one
FirstBelow(card, name, class_) ==
  LET below == Descendants(card.children)
      hits  == {i \in 1..Len(below) :
                  below[i].name = name /\ class_ \in below[i].class}
  IN  IF hits = {} THEN <<>>
      ELSE <<below[CHOOSE i \in hits : \A j \in hits : i <= j]>>

\* the element or the attribute a field is read from is not in the card
SourceMissing(card, field) ==
  LET el(name, class_) == FirstBelow(card, name, class_)
      lacks(e, key) == \A kv \in e[1].attrs : kv[1] # key
  IN  CASE field = "title" -> el("h3", "base-search-card__title") = <<>>
        [] field = "company" ->
             LET h4 == el("h4", "base-search-card__subtitle")
             IN  h4 = <<>>
                 \/ \A i \in 1..Len(Descendants(h4[1].children)) :
                       Descendants(h4[1].children)[i].name # "a"
        [] field = "location" -> el("span", "job-search-card__location") = <<>>
        [] field = "url" ->
             LET a == el("a", "base-card__full-link")
             IN  a = <<>> \/ lacks(a, "href")
        [] field = "date_posted_text" ->
             el("time", "job-search-card__listdate") = <<>>
        [] field = "date_posted_iso" ->
             LET time == el("time", "job-search-card__listdate")
             IN  time = <<>> \/ lacks(time, "datetime")
        [] field = "company_logo_url" ->
             LET img == el("img", "artdeco-entity-image")
             IN  img = <<>>
                 \/ (lacks(img, "data-delayed-url") /\ lacks(img, "src"))

\* C11: parse_linkedin_jobs never raises and returns one record per job
\* card, in document order, each with the seven fields, a field being None
\* exactly when its source element or attribute is missing from the card;
\* the result is empty when the document has no card.
C11_OneRecordPerCard ==
  /\ jobs_exc = "none"
  /\ jobs_pc # "raised"
  /\ jobs_pc = "returned" =>
       LET cards == CardsOf(html_content)
       IN  /\ Len(extracted_jobs) = Len(cards)
           /\ \A i \in 1..Len(cards) :
                 /\ DOMAIN extracted_jobs[i] = {JobFields[k] : k \in 1..7}
                 /\ \A k \in 1..7 :
                       (extracted_jobs[i][JobFields[k]].tag = "None")
                         <=> SourceMissing(cards[i], JobFields[k])

\* the first n listings of the endpoint, in upstream order
FirstUpstream(n) == [i \in 1..n |-> i]

SameSeq(s, t) == Len(s) = Len(t) /\ \A i \in 1..Len(s) : s[i] = t[i]

FetchReturned == fetch_pc = "returned"

\* C12: fetchListings returns at most `limit` items; when no request failed
\* at the transport level it returns exactly min(limit, totalAvailable)
\* items, the first ones in upstream order.
C12_FetchReturnsFirstMinItems ==
  /\ Len(fetched) <= limit
  /\ FetchReturned /\ transport = {} =>
       SameSeq(fetched, FirstUpstream(Min(limit, totalAvailable)))

\* limit 26 of 52 listings: two pages fetched, 50 accumulated, 26 returned
C12_Witness ==
  /\ FetchReturned /\ transport = {}
  /\ limit = 26 /\ totalAvailable = 52
  /\ Len(accumulated) = 50 /\ Len(fetched) = 26

\* C13: after a request failed at the transport level no further request is
\* issued, and fetchListings returns the listings of the earlier pages, cut
\* to the limit: nothing when the request for offset 0 failed.
C13_TransportFailureReturnsPartial ==
  /\ transport # {} =>
       /\ fetch_pc \in {"done", "returned"}
       /\ transport = {requests[Len(requests)]}
  /\ FetchReturned /\ transport # {} =>
       LET failedAt == requests[Len(requests)]
       IN  /\ SameSeq(fetched,
                      FirstUpstream(Min(limit, Min(failedAt, totalAvailable))))
           /\ failedAt = 0 => fetched = <<>>

\* the second request failed: the 25 listings of the first page are returned
C13_Witness ==
  /\ FetchReturned /\ transport = {25}
  /\ requests = <<0, 25>> /\ Len(fetched) = 25 /\ limit > 25

\* C14: the offsets requested are 0, 25, 50, ... in this order, at most
\* ceil(limit / 25) of them, and a successful response that parsed to zero
\* listings is the last one requested.
C14_NoRequestAfterEmptyPage ==
  /\ \A i \in 1..Len(requests) : requests[i] = (i - 1) * 25
  /\ (Len(requests) - 1) * 25 < limit
  /\ \A i \in 1..(Len(requests) - 1) :
       requests[i] \notin transport => requests[i] < totalAvailable
  /\ sawEmpty => fetch_pc # "loop"

\* 25 listings, limit 51: the second page is empty and the third not asked
C14_Witness ==
  /\ FetchReturned /\ sawEmpty
  /\ limit = 51 /\ totalAvailable = 25
  /\ requests = <<0, 25>> /\ Len(fetched) = 25

Referenced(company_url) ==
  \E i \in 1..Len(listings) : listings[i].company_url = company_url

EnrichDone == enrich_pc = "done"

\* C15: enrich invokes the follower lookup exactly once for each distinct
\* non-null company URL of the listings, however many listings share it,
\* and never for a listing without a company URL.
C15_OneScrapePerDistinctUrl ==
  /\ \A i \in 1..Len(scrapes) :
       /\ scrapes[i] # NullUrl /\ Referenced(scrapes[i])
       /\ \A j \in 1..Len(scrapes) : scrapes[i] = scrapes[j] => i = j
  /\ calls = Len(scrapes)
  /\ EnrichDone =>
       \A u \in Urls : Referenced(u) => \E i \in 1..Len(scrapes) : scrapes[i] = u

\* 5 listings over 2 distinct URLs: exactly 2 lookups
C15_Witness ==
  /\ EnrichDone /\ Len(listings) = 5
  /\ Len(scrapes) = 2 /\ calls = 2

\* C16: after enrich the listings that share a company URL carry the same
\* follower value, unknown included, and a listing without a company URL
\* carries none.
C16_SameUrlSameFollowers ==
  EnrichDone =>
    /\ Len(enriched) = Len(listings)
    /\ \A i \in 1..Len(enriched) :
         /\ enriched[i].id = listings[i].id
         /\ enriched[i].company_url = listings[i].company_url
         /\ enriched[i].company_url = NullUrl => enriched[i].followers = None
         /\ \A j \in 1..Len(enriched) :
              enriched[i].company_url = enriched[j].company_url
                => enriched[i].followers = enriched[j].followers

\* of the 5 listings, those of one company share an unknown count and those
\* of the other share a number
C16_Witness ==
  /\ EnrichDone /\ Len(listings) = 5
  /\ enriched[1].followers = None /\ enriched[3].followers = None
  /\ enriched[2].followers.tag = "int"
  /\ enriched[5].followers = enriched[2].followers
  /\ Len(yields) = 3

Delays == {"sleep(3)", "sleep(2)"}

\* the position before the first event of the call that logged event i
CallStart(i) ==
  LET ends == {j \in 1..(i - 1) :
                 log[j] \in {"launch", "login_ok", "return int", "return None",
                             "quit", "raise"}}
  IN  IF ends = {} THEN 0 ELSE CHOOSE j \in ends : \A k \in ends : k <= j

\* the failed attempts of that call up to event i
FailsInCall(i) ==
  Cardinality({j \in (CallStart(i) + 1)..i : log[j] \in {"login_fail", "get_fail"}})

DelayedRetry(i, delay, again) ==
  IF FailsInCall(i) < 3
  THEN /\ i < Len(log) /\ log[i + 1] = delay
       /\ i + 2 <= Len(log) => log[i + 2] = again
  ELSE i < Len(log) => log[i + 1] \notin Delays

\* C17: in login and in get_followers each failed attempt but the third is
\* followed by the fixed delay and then by the next attempt, so no attempt
\* starts right after a failed one; no delay follows the third failed
\* attempt or a successful attempt.
C17_DelayBetweenAttempts ==
  \A i \in 1..Len(log) :
    /\ log[i] = "login_fail" => DelayedRetry(i, "sleep(3)", "login_get")
    /\ log[i] = "get_fail" => DelayedRetry(i, "sleep(2)", "get")
    /\ log[i] \in {"login_ok", "return int"} /\ i < Len(log)
         => log[i + 1] \notin Delays
    /\ log[i] \in {"login_get", "get"} /\ i > 1
         => log[i - 1] \notin {"login_fail", "get_fail"}
    /\ log[i] \in Delays => i > 1 /\ log[i - 1] \in {"login_fail", "get_fail"}

\* login succeeded at its second attempt after one delay; a lookup failed
\* three times with two delays and returned None
C17_Witness ==
  /\ IsPrefix(LoginTrace(2), log)
  /\ Len(log) = Len(LoginTrace(2)) + 9
  /\ SubSeq(log, Len(log) - 8, Len(log))
       = <<"get", "get_fail", "sleep(2)", "get", "get_fail", "sleep(2)",
           "get", "get_fail", "return None">>

\* C18: between two consecutive navigations to company pages a delay is
\* observed, also when the first is the last navigation for one company and
\* the second the first navigation for the next company.
C18_DelayBetweenNavigations ==
  \A i \in 1..Len(log) : \A j \in (i + 1)..Len(log) :
    log[i] = "get" /\ log[j] = "get"
      => \E k \in (i + 1)..(j - 1) : log[k] \in Delays \/ log[k] = "get"

\* C19: once the browser of the session is quit by close(), the session
\* performs no further browser operation: no navigation to a company page,
\* no login attempt, no second quit.
C19_ClosedIsTerminal ==
  \A i \in 1..Len(log) : \A j \in (i + 1)..Len(log) :
    log[i] = "quit" => log[j] \notin {"get", "login_get", "quit"}

\* lowercase, without the word followers, stripped, without separators
Normalised(s) == Remove(Strip(Remove(Lower(s), FOLLOWERS)), <<",">>)

\* the normalised text without its trailing unit letter
Remainder(s) ==
  LET t == Normalised(s)
  IN  IF t # <<>> /\ t[Len(t)] \in {"k", "m"} THEN SubSeq(t, 1, Len(t) - 1)
      ELSE t

\* a decimal number, with a sign or blanks around it at most
PlainNumber(s) ==
  LET t == Strip(s)
      u == IF t # <<>> /\ t[1] \in {"-", "+"} THEN Tail(t) ELSE t
  IN  IsDecimal(u)

\* C20: a text whose remainder, the normalised text without a trailing k or
\* m, is not a plain number resolves to None: a k or m that is not the last
\* character, or a second suffix letter, is no multiplier.
C20_SuffixOnlyTrailing ==
  parsed # Unset /\ ~PlainNumber(Remainder(text)) => parsed = None

\* the count a text of the pages stands for, -1 for a text without one
ExpectedCount(t) ==
  CASE t = Text_1_2K -> 1200
    [] t = Text_3M -> 3000000
    [] OTHER -> -1

\* the last attempt of the running or last get_followers call got a page
PageSeen ==
  yields # <<>> /\ yields[Len(yields)].tag \notin BrowserErrors

\* C21: an attempt that got a page takes the aria-label of the followers
\* link when the page has one and the text of the summary-info div only
\* when it has none; it gives a count exactly when that text parses, and
\* then get_followers returns it; otherwise the attempt is a failed one,
\* followed by the next attempt unless it was the third.
C21_PreferredThenFallback ==
  PageSeen =>
    LET last   == yields[Len(yields)]
        chosen == IF page.link # NoElement THEN page.link ELSE page.div
    IN  IF chosen # NoElement /\ ExpectedCount(chosen) >= 0
        THEN /\ last = Int32(ExpectedCount(chosen))
             /\ ret = last /\ pc = "idle"
        ELSE /\ last.tag # "int"
             /\ attempt = Len(yields)
             /\ Len(yields) < 3 =>
                  /\ pc = "get"
                  /\ SubSeq(log, Len(log) - 2, Len(log))
                       = <<"get", "get_fail", "sleep(2)">>

\* the label does not parse and the div would: the div is not used, the
\* first attempt failed and the second is due
C21_Witness ==
  /\ PageSeen /\ Len(yields) = 1
  /\ page.link = Text_abc /\ page.div = Text_3M
  /\ yields[1] = NotFound /\ pc = "get" /\ attempt = 1
====
